---- MODULE Spec2Model ----
(***************************************************************************)
(* Model of two files of Ghost:                                            *)
(*   core/shared/labs.js      the feature-flag ("labs") module             *)
(*   test/utils/e2e-utils.js  the start/stop harness of the e2e tests      *)
(*                                                                         *)
(* JavaScript values are modelled by strings: "undefined" is a missing key *)
(* (or a missing value), "true" and "false" are the two booleans, and "on" *)
(* stands for any truthy value that is not the boolean true.               *)
(***************************************************************************)
EXTENDS Integers, Sequences, FiniteSets, TLC

\* ------------------------------------------------------------------------
\* labs.js : the flag lists
\* ------------------------------------------------------------------------

GA_FEATURES == {"customThemeSettings"}

BETA_FEATURES == {"activitypub", "multipleProducts"}

ALPHA_FEATURES ==
    {"oauthLogin", "membersActivity", "cardSettingsPanel", "urlCache",
     "mediaAPI", "filesAPI", "membersAutoLogin", "buttonCard", "calloutCard",
     "nftCard", "accordionCard", "gifsCard", "fileCard", "audioCard",
     "videoCard", "productCard"}

GA_KEYS == GA_FEATURES

WRITABLE_KEYS_ALLOWLIST == BETA_FEATURES \cup ALPHA_FEATURES

\* A key no list of labs.js names, as a stray entry of the stored setting.
UnexpectedKeys == {"unexpectedKey"}

\* Every property name an object of the model can carry.
Keys == GA_FEATURES \cup BETA_FEATURES \cup ALPHA_FEATURES
            \cup {"members"} \cup UnexpectedKeys

\* Values a key of the stored 'labs' object can hold.
StoredValues == {"true", "false", "on"}

JsValues == StoredValues \cup {"undefined"}

\* JavaScript truthiness of a modelled value.
Truthy(v) == v \in {"true", "on"}

EmptyObject == [k \in Keys |-> "undefined"]

OwnKeys(obj) == {k \in Keys : obj[k] # "undefined"}

\* The stored setting holds at most MaxStoredKeys keys in the model.
MaxStoredKeys == 1

RECURSIVE ObjectsWith(_)
\* The objects with at most n own keys, built key by key.
ObjectsWith(n) ==
    IF n = 0 THEN {EmptyObject}
    ELSE LET smaller == ObjectsWith(n - 1)
         IN  smaller \cup
             {[o EXCEPT ![k] = v] : o \in smaller, k \in Keys, v \in StoredValues}

\* settingsCache.get('labs'): missing, or an object.
LabsSettings ==
    {[present |-> FALSE, obj |-> EmptyObject]}
        \cup {[present |-> TRUE, obj |-> o] : o \in ObjectsWith(MaxStoredKeys)}

\* settingsCache.get('members_signup_access')
SignupAccessValues == {"all", "none"}

\* process.env.NODE_ENV, as sequences of characters.
EnvProduction == <<"p", "r", "o", "d", "u", "c", "t", "i", "o", "n">>
EnvTesting == <<"t", "e", "s", "t", "i", "n", "g">>
NodeEnvs == {EnvProduction, EnvTesting}

TestPrefix == <<"t", "e", "s", "t">>

\* String.prototype.startsWith
StartsWith(s, prefix) ==
    /\ Len(s) >= Len(prefix)
    /\ SubSeq(s, 1, Len(prefix)) = prefix

\* ------------------------------------------------------------------------
\* State
\* ------------------------------------------------------------------------

VARIABLES
    labsSetting,                 \* settingsCache 'labs'
    membersSignupAccess,         \* settingsCache 'members_signup_access'
    enableDeveloperExperiments,  \* config.get('enableDeveloperExperiments')
    NODE_ENV,                    \* process.env.NODE_ENV
    call,                        \* the last call into labs.js and what it did
    middleware,                  \* the middleware made by enabledMiddleware
    ghostServer,                 \* e2e-utils: the module's server handle, 0 = undefined
    httpServer,                  \* the servers whose httpServer is live
    booted,                      \* how many servers boot() has made so far
    pc,                          \* "idle", "running" (inside a call) or "exited"
    todo,                        \* the steps the running call has still to do
    done,                        \* the steps the current (or last) call started, in order
    callInfo,                    \* the current (or last) call of startGhost / stopGhost
    started                      \* startGhost has been called in this process

labsVars == <<labsSetting, membersSignupAccess, enableDeveloperExperiments,
              NODE_ENV, call, middleware>>

e2eVars == <<ghostServer, httpServer, booted, pc, todo, done, callInfo, started>>

vars == <<labsVars, e2eVars>>

\* ------------------------------------------------------------------------
\* labs.js : getAll, isSet
\* ------------------------------------------------------------------------

\* A labs module that reads nothing from the settings cache.
ClonedLabs_Empty(stored) == EmptyObject

\* The object getAll works on: _.cloneDeep(settingsCache.get('labs')) || {}
ClonedLabs(stored) == IF stored.present THEN stored.obj ELSE EmptyObject

\* The environment test with "and" in place of "or".
AlphaHidden_And(devExperiments, nodeEnv) ==
    ~(devExperiments /\ StartsWith(nodeEnv, <<"t", "e", "s", "t">>))

\* The condition under which a truthy alpha flag is deleted.
AlphaHidden(devExperiments, nodeEnv) ==
    ~(devExperiments \/ StartsWith(nodeEnv, TestPrefix))

\* ALPHA_FEATURES.forEach(...)
DeleteAlpha(labs, devExperiments, nodeEnv) ==
    [k \in Keys |->
        IF k \in ALPHA_FEATURES /\ Truthy(labs[k])
                /\ AlphaHidden(devExperiments, nodeEnv)
        THEN "undefined"
        ELSE labs[k]]

\* A getAll that leaves the stored value of a GA flag in place.
ForceGA_Skipped(labs) == labs

\* GA_FEATURES.forEach(...)
ForceGA(labs) == [k \in Keys |-> IF k \in GA_FEATURES THEN "true" ELSE labs[k]]

\* labs.members = settingsCache.get('members_signup_access') !== 'none'
MembersValue(signupAccess) == IF signupAccess # "none" THEN "true" ELSE "false"

getAll(stored, signupAccess, devExperiments, nodeEnv) ==
    [ForceGA(DeleteAlpha(ClonedLabs(stored), devExperiments, nodeEnv))
        EXCEPT !["members"] = MembersValue(signupAccess)]

\* A getAll working on the cached object itself, without the deep clone.
LabsAfterGetAll_InPlace(stored, result) ==
    IF stored.present THEN [present |-> TRUE, obj |-> result] ELSE stored

\* The stored setting after a getAll: it worked on a deep clone.
LabsAfterGetAll(stored, result) == stored

\* !!(labsConfig && labsConfig[flag] && labsConfig[flag] === true)
StrictlyTrue(v) == Truthy(v) /\ v = "true"

isSet(flag, stored, signupAccess, devExperiments, nodeEnv) ==
    StrictlyTrue(getAll(stored, signupAccess, devExperiments, nodeEnv)[flag])

\* isSet in the current state.
IsSetNow(flag) ==
    isSet(flag, labsSetting, membersSignupAccess, enableDeveloperExperiments, NODE_ENV)

GetAllNow ==
    getAll(labsSetting, membersSignupAccess, enableDeveloperExperiments, NODE_ENV)

\* ------------------------------------------------------------------------
\* labs.js : enabledHelper, enabledMiddleware
\* ------------------------------------------------------------------------

\* An enabledHelper that never wraps the error string in a Promise.
enabledHelper_NeverAsync(flagIsSet, async) ==
    IF flagIsSet
    THEN [callbackCalls |-> 1, logged |-> <<>>, returned |-> "callbackResult"]
    ELSE [callbackCalls |-> 0,
          logged |-> <<"DisabledFeatureError">>,
          returned |-> "SafeString"]

\* What one enabledHelper(options, callback) does, given isSet(options.flagKey).
enabledHelper(flagIsSet, async) ==
    IF flagIsSet
    THEN [callbackCalls |-> 1, logged |-> <<>>, returned |-> "callbackResult"]
    ELSE [callbackCalls |-> 0,
          logged |-> <<"DisabledFeatureError">>,
          returned |-> IF async THEN "Promise<SafeString>" ELSE "SafeString"]

\* A middleware that evaluates isSet once, when it is made.
MiddlewareFlagValue_Stale(mw) == mw.madeWith

\* The flag value the middleware decides a request on: a fresh isSet(flag).
MiddlewareFlagValue(mw) == IsSetNow(mw.flag)

\* What the middleware does with one request: the calls of next, in order.
MiddlewareNextCalls(flagIsSet) ==
    IF flagIsSet THEN <<"next()">> ELSE <<"next(NotFoundError)">>

NoCall ==
    [name |-> "none", flag |-> "", async |-> FALSE, result |-> EmptyObject,
     value |-> FALSE, callbackCalls |-> 0, logged |-> <<>>, returned |-> ""]

NoMiddleware == [flag |-> "", madeWith |-> FALSE, nextCalls |-> <<>>]

\* labs.getAll()
CallGetAll ==
    /\ call.name \in {"none", "getAll"}
    /\ call' = [NoCall EXCEPT !.name = "getAll", !.result = GetAllNow]
    /\ labsSetting' = LabsAfterGetAll(labsSetting, GetAllNow)
    /\ UNCHANGED <<membersSignupAccess, enableDeveloperExperiments, NODE_ENV,
                   middleware>>
    /\ UNCHANGED e2eVars

\* labs.isSet(flag)
CallIsSet(flag) ==
    /\ call.name = "none"
    /\ call' = [NoCall EXCEPT !.name = "isSet", !.flag = flag,
                              !.result = GetAllNow, !.value = IsSetNow(flag)]
    /\ labsSetting' = LabsAfterGetAll(labsSetting, GetAllNow)
    /\ UNCHANGED <<membersSignupAccess, enableDeveloperExperiments, NODE_ENV,
                   middleware>>
    /\ UNCHANGED e2eVars

\* labs.enabledHelper({flagKey, async}, callback)
CallEnabledHelper(flagKey, async) ==
    /\ call.name = "none"
    /\ LET did == enabledHelper(IsSetNow(flagKey), async)
       IN  call' = [NoCall EXCEPT !.name = "enabledHelper", !.flag = flagKey,
                                  !.async = async, !.value = IsSetNow(flagKey),
                                  !.callbackCalls = did.callbackCalls,
                                  !.logged = did.logged,
                                  !.returned = did.returned]
    /\ labsSetting' = LabsAfterGetAll(labsSetting, GetAllNow)
    /\ UNCHANGED <<membersSignupAccess, enableDeveloperExperiments, NODE_ENV,
                   middleware>>
    /\ UNCHANGED e2eVars

\* labs.enabledMiddleware(flag): makes the middleware, decides nothing yet.
EnabledMiddleware(flag) ==
    /\ middleware.flag = ""
    /\ middleware' = [flag |-> flag, madeWith |-> IsSetNow(flag), nextCalls |-> <<>>]
    /\ UNCHANGED <<labsSetting, membersSignupAccess, enableDeveloperExperiments,
                   NODE_ENV, call>>
    /\ UNCHANGED e2eVars

\* One request through the middleware: (req, res, next) => ...
HandleRequest ==
    /\ middleware.flag # ""
    /\ middleware' = [middleware EXCEPT
                        !.nextCalls = MiddlewareNextCalls(MiddlewareFlagValue(middleware))]
    /\ call' = [NoCall EXCEPT !.name = "request", !.flag = middleware.flag]
    /\ labsSetting' = LabsAfterGetAll(labsSetting, GetAllNow)
    /\ UNCHANGED <<membersSignupAccess, enableDeveloperExperiments, NODE_ENV>>
    /\ UNCHANGED e2eVars

\* The settings service stores a new value under one key of 'labs'.
SetLabsKey(key, value) ==
    /\ key \in Keys
    /\ LET obj == [ClonedLabs(labsSetting) EXCEPT ![key] = value]
       IN  /\ Cardinality(OwnKeys(obj)) <= MaxStoredKeys
           /\ labsSetting' = [present |-> TRUE, obj |-> obj]
    /\ call' = NoCall
    /\ UNCHANGED <<membersSignupAccess, enableDeveloperExperiments, NODE_ENV, middleware>>
    /\ UNCHANGED e2eVars

\* The settings service stores members_signup_access.
SetMembersSignupAccess(value) ==
    /\ membersSignupAccess' = value
    /\ call' = NoCall
    /\ UNCHANGED <<labsSetting, enableDeveloperExperiments, NODE_ENV, middleware>>
    /\ UNCHANGED e2eVars

\* config.set('enableDeveloperExperiments', value)
SetDeveloperExperiments(value) ==
    /\ enableDeveloperExperiments' = value
    /\ call' = NoCall
    /\ UNCHANGED <<labsSetting, membersSignupAccess, NODE_ENV, middleware>>
    /\ UNCHANGED e2eVars

\* ------------------------------------------------------------------------
\* e2e-utils.js
\* ------------------------------------------------------------------------

\* boot() is called at most MaxBoots times in the model.
MaxBoots == 2

\* ghostServer && ghostServer.httpServer
ServerRunning(server, live) == server # 0 /\ server \in live

\* stopGhost: what it does, given whether a server with a live httpServer exists.
stopGhost(running) ==
    IF running
    THEN <<"ghostServer.stop", "delete require.cache[app]", "urlService.resetGenerators">>
    ELSE <<>>

\* A restart path that passes urlCache: frontend.
restartModeGhostStart_UrlCache(frontend) ==
    <<"dbUtils.teardown", "knexMigrator.init({only: 2})", "settingsService.init">>
    \o (IF frontend THEN <<"routeSettingsService.init", "themeService.init">> ELSE <<>>)
    \o <<"urlServiceUtils.reset",
         IF frontend THEN "urlServiceUtils.init({urlCache: true})"
                     ELSE "urlServiceUtils.init({urlCache: false})">>
    \o (IF frontend THEN <<"urlServiceUtils.isFinished">> ELSE <<>>)
    \o <<"customRedirectsService.init", "limits.init">>

\* restartModeGhostStart({frontend})
restartModeGhostStart(frontend) ==
    <<"dbUtils.teardown", "knexMigrator.init({only: 2})", "settingsService.init">>
    \o (IF frontend THEN <<"routeSettingsService.init", "themeService.init">> ELSE <<>>)
    \o <<"urlServiceUtils.reset",
         IF ~frontend THEN "urlServiceUtils.init({urlCache: true})"
                      ELSE "urlServiceUtils.init({urlCache: false})">>
    \o (IF frontend THEN <<"urlServiceUtils.isFinished">> ELSE <<>>)
    \o <<"customRedirectsService.init", "limits.init">>

\* A fresh start that does not stop the running server.
freshModeGhostStart_NoStop(frontend, running) ==
    <<"knexMigrator.reset({force: true})",
      "settingsService.shutdown", "knexMigrator.init", "settingsService.init",
      "urlService.resetGenerators", "boot">>
    \o (IF frontend THEN <<"urlServiceUtils.isFinished">> ELSE <<>>)

\* freshModeGhostStart(options)
freshModeGhostStart(frontend, running) ==
    <<"knexMigrator.reset({force: true})">>
    \o stopGhost(running)
    \o <<"settingsService.shutdown", "knexMigrator.init", "settingsService.init",
         "urlService.resetGenerators", "boot">>
    \o (IF frontend THEN <<"urlServiceUtils.isFinished">> ELSE <<>>)

\* A startGhost that looks at the handle only, not at its httpServer.
startGhostPaths_HandleOnly(server, live, forceStart) ==
    IF server # 0 /\ ~forceStart
    THEN <<"restartModeGhostStart">>
    ELSE <<"freshModeGhostStart">>

\* The if / else of startGhost: the paths it runs, in order.
startGhostPaths(server, live, forceStart) ==
    IF ServerRunning(server, live) /\ ~forceStart
    THEN <<"restartModeGhostStart">>
    ELSE <<"freshModeGhostStart">>

PathSteps(path, frontend, running) ==
    IF path = "restartModeGhostStart"
    THEN restartModeGhostStart(frontend)
    ELSE freshModeGhostStart(frontend, running)

RECURSIVE StepsOfPaths(_, _, _)
StepsOfPaths(paths, frontend, running) ==
    IF paths = <<>> THEN <<>>
    ELSE PathSteps(Head(paths), frontend, running)
            \o StepsOfPaths(Tail(paths), frontend, running)

\* Everything one startGhost(options) does after prepareContentFolder.
startGhostPlan(server, live, forceStart, frontend) ==
    StepsOfPaths(startGhostPaths(server, live, forceStart), frontend,
                 ServerRunning(server, live))
    \o <<"exposeFixtures">>

\* A call that swallows the failure of a step and carries on.
AfterFailure_Swallow(step, rest) ==
    IF step = "exposeFixtures"
    THEN [outcome |-> "exit(1)", pc |-> "exited", todo |-> <<>>, consoleErrors |-> 1]
    ELSE [outcome |-> "pending", pc |-> "running", todo |-> rest, consoleErrors |-> 0]

\* What a failing step leads to: exposeFixtures catches, logs and exits;
\* any other failure rejects the call and nothing after it runs.
AfterFailure(step, rest) ==
    IF step = "exposeFixtures"
    THEN [outcome |-> "exit(1)", pc |-> "exited", todo |-> <<>>, consoleErrors |-> 1]
    ELSE [outcome |-> "rejected", pc |-> "idle", todo |-> <<>>, consoleErrors |-> 0]

NoCallInfo ==
    [kind |-> "none", forceStart |-> FALSE, frontend |-> FALSE, first |-> FALSE,
     paths |-> <<>>, plan |-> <<>>, handleBefore |-> 0, liveBefore |-> {},
     outcome |-> "none", returned |-> 0, failedStep |-> "", consoleErrors |-> 0]

\* startGhost(options), up to the first await: options merged, content folder
\* prepared, path chosen.
StartGhost(forceStart, frontend) ==
    /\ pc = "idle"
    /\ \E i \in 1..Len(startGhostPaths(ghostServer, httpServer, forceStart)) :
            startGhostPaths(ghostServer, httpServer, forceStart)[i] = "freshModeGhostStart"
        => booted < MaxBoots
    /\ LET plan == startGhostPlan(ghostServer, httpServer, forceStart, frontend)
       IN  /\ callInfo' = [NoCallInfo EXCEPT
                             !.kind = "startGhost",
                             !.forceStart = forceStart,
                             !.frontend = frontend,
                             !.first = ~started,
                             !.paths = startGhostPaths(ghostServer, httpServer, forceStart),
                             !.plan = <<"prepareContentFolder">> \o plan,
                             !.handleBefore = ghostServer,
                             !.liveBefore = httpServer,
                             !.outcome = "pending"]
           /\ todo' = plan
    /\ done' = <<"prepareContentFolder">>
    /\ pc' = "running"
    /\ started' = TRUE
    /\ UNCHANGED <<ghostServer, httpServer, booted>>
    /\ UNCHANGED labsVars

\* stopGhost() called by a test.
StopGhost ==
    /\ pc = "idle"
    /\ callInfo' = [NoCallInfo EXCEPT
                      !.kind = "stopGhost",
                      !.plan = stopGhost(ServerRunning(ghostServer, httpServer)),
                      !.handleBefore = ghostServer,
                      !.liveBefore = httpServer,
                      !.outcome = "pending"]
    /\ todo' = stopGhost(ServerRunning(ghostServer, httpServer))
    /\ done' = <<>>
    /\ pc' = "running"
    /\ UNCHANGED <<ghostServer, httpServer, booted, started>>
    /\ UNCHANGED labsVars

\* The handle after a step that succeeded: boot() hands back a new server.
HandleAfter(step) == IF step = "boot" THEN booted + 1 ELSE ghostServer

\* The live servers after a step that succeeded.
LiveAfter(step) ==
    IF step = "boot" THEN httpServer \cup {booted + 1}
    ELSE IF step = "ghostServer.stop" THEN httpServer \ {ghostServer}
    ELSE httpServer

\* The next step of the running call completes.
StepOk ==
    /\ pc = "running"
    /\ todo # <<>>
    /\ LET step == Head(todo)
       IN  /\ done' = Append(done, step)
           /\ ghostServer' = HandleAfter(step)
           /\ httpServer' = LiveAfter(step)
           /\ booted' = IF step = "boot" THEN booted + 1 ELSE booted
    /\ todo' = Tail(todo)
    /\ UNCHANGED <<pc, callInfo, started>>
    /\ UNCHANGED labsVars

\* The next step of the running call throws or rejects.
StepFails ==
    /\ pc = "running"
    /\ todo # <<>>
    /\ LET step == Head(todo)
           after == AfterFailure(step, Tail(todo))
       IN  /\ done' = Append(done, step)
           /\ todo' = after.todo
           /\ pc' = after.pc
           /\ callInfo' = [callInfo EXCEPT
                             !.outcome = after.outcome,
                             !.failedStep = step,
                             !.consoleErrors = after.consoleErrors]
    /\ UNCHANGED <<ghostServer, httpServer, booted, started>>
    /\ UNCHANGED labsVars

\* The running call has nothing left to do: it returns (startGhost: the handle).
Return ==
    /\ pc = "running"
    /\ todo = <<>>
    /\ callInfo.outcome = "pending"
    /\ callInfo' = [callInfo EXCEPT
                      !.outcome = "returned",
                      !.returned = IF callInfo.kind = "startGhost" THEN ghostServer ELSE 0]
    /\ pc' = "idle"
    /\ UNCHANGED <<ghostServer, httpServer, booted, todo, done, started>>
    /\ UNCHANGED labsVars

\* ------------------------------------------------------------------------
\* Specifications
\* ------------------------------------------------------------------------

Init ==
    /\ labsSetting \in LabsSettings
    /\ membersSignupAccess \in SignupAccessValues
    /\ enableDeveloperExperiments \in BOOLEAN
    /\ NODE_ENV \in NodeEnvs
    /\ call = NoCall
    /\ middleware = NoMiddleware
    /\ ghostServer = 0
    /\ httpServer = {}
    /\ booted = 0
    /\ pc = "idle"
    /\ todo = <<>>
    /\ done = <<>>
    /\ callInfo = NoCallInfo
    /\ started = FALSE

\* Calls into labs.js under every stored setting, configuration and environment.
Next ==
    \/ CallGetAll
    \/ \E flag \in Keys : CallIsSet(flag)
    \/ \E flag \in Keys, async \in BOOLEAN : CallEnabledHelper(flag, async)

Spec == Init /\ [][Next]_vars

\* A middleware serving requests while the settings it reads change.
MiddlewareNext ==
    \/ \E flag \in Keys : EnabledMiddleware(flag)
    \/ HandleRequest
    \/ \E value \in JsValues : SetLabsKey(middleware.flag, value)
    \/ \E value \in SignupAccessValues : SetMembersSignupAccess(value)
    \/ \E value \in BOOLEAN : SetDeveloperExperiments(value)

SpecMiddleware == Init /\ [][MiddlewareNext]_vars

\* A test process calling startGhost and stopGhost one after the other.
E2EInit ==
    /\ labsSetting = [present |-> FALSE, obj |-> EmptyObject]
    /\ membersSignupAccess = "all"
    /\ enableDeveloperExperiments = FALSE
    /\ NODE_ENV = EnvTesting
    /\ call = NoCall
    /\ middleware = NoMiddleware
    /\ ghostServer = 0
    /\ httpServer = {}
    /\ booted = 0
    /\ pc = "idle"
    /\ todo = <<>>
    /\ done = <<>>
    /\ callInfo = NoCallInfo
    /\ started = FALSE

E2ENext ==
    \/ \E forceStart \in BOOLEAN, frontend \in BOOLEAN : StartGhost(forceStart, frontend)
    \/ StopGhost
    \/ StepOk
    \/ StepFails
    \/ Return

SpecE2E == E2EInit /\ [][E2ENext]_vars

\* ------------------------------------------------------------------------
\* Properties
\* ------------------------------------------------------------------------

\* The value a key has in the stored 'labs' setting.
StoredValue(k) == IF labsSetting.present THEN labsSetting.obj[k] ELSE "undefined"

\* Neither developer experiments nor a test environment.
PlainEnvironment == ~enableDeveloperExperiments /\ ~StartsWith(NODE_ENV, TestPrefix)

ListedKeys == GA_FEATURES \cup BETA_FEATURES \cup ALPHA_FEATURES \cup {"members"}

\* C1: a GA flag is always set: isSet(flag) is true and getAll()[flag] is
\* true, whatever is stored and whatever the configuration and environment.
C1_GAAlwaysSet ==
    /\ call.name = "isSet" /\ call.flag \in GA_FEATURES => call.value = TRUE
    /\ call.name = "getAll" => \A flag \in GA_FEATURES : call.result[flag] = "true"

C1_Witness ==
    /\ call.name = "isSet"
    /\ call.flag \in GA_FEATURES
    /\ StoredValue(call.flag) = "false"
    /\ PlainEnvironment

\* C2: outside developer and test environments an alpha flag is never
\* enabled in getAll() and isSet(flag) is false; in a developer or test
\* environment getAll() returns its stored value; a beta flag is returned
\* with its stored value everywhere.
C2_AlphaVisibility ==
    /\ call.name = "getAll" =>
        /\ \A flag \in ALPHA_FEATURES :
               IF PlainEnvironment
               THEN ~Truthy(call.result[flag])
               ELSE call.result[flag] = StoredValue(flag)
        /\ \A flag \in BETA_FEATURES : call.result[flag] = StoredValue(flag)
    /\ call.name = "isSet" /\ call.flag \in ALPHA_FEATURES /\ PlainEnvironment
            => call.value = FALSE
    /\ call.name = "isSet" /\ call.flag \in ALPHA_FEATURES \cup BETA_FEATURES
            /\ ~PlainEnvironment
            => call.value = (StoredValue(call.flag) = "true")

C2_Witness ==
    /\ call.name = "getAll"
    /\ PlainEnvironment
    /\ \E flag \in ALPHA_FEATURES : StoredValue(flag) = "true"

\* C3 as stated: every key of getAll() is a listed key, and isSet is false
\* for a key that is not listed.
C3_Original ==
    /\ call.name = "getAll" => OwnKeys(call.result) \subseteq ListedKeys
    /\ call.name = "isSet" /\ call.flag \notin ListedKeys => call.value = FALSE

\* C3 (amended): getAll() applies no allowlist: its keys are the listed keys
\* and the keys of the stored setting; a stored key that is not listed is
\* returned with its stored value, and isSet is true for it exactly when
\* that value is the boolean true.
C3_StoredKeysPassThrough ==
    /\ call.name = "getAll" =>
        /\ OwnKeys(call.result) \subseteq
               ListedKeys \cup OwnKeys(ClonedLabs(labsSetting))
        /\ \A k \in Keys \ ListedKeys : call.result[k] = StoredValue(k)
    /\ call.name = "isSet" /\ call.flag \notin ListedKeys
            => call.value = (StoredValue(call.flag) = "true")

C3_Witness ==
    /\ call.name = "getAll"
    /\ \E k \in Keys \ ListedKeys : StoredValue(k) = "true" /\ call.result[k] = "true"

\* C4: enabledHelper calls the callback once, returns its result and logs
\* nothing exactly when the flag is set; otherwise it never calls it, logs
\* one DisabledFeatureError and returns the error SafeString, in a resolved
\* Promise exactly when options.async is truthy.
C4_EnabledHelper ==
    call.name = "enabledHelper" =>
        IF IsSetNow(call.flag)
        THEN /\ call.callbackCalls = 1
             /\ call.returned = "callbackResult"
             /\ call.logged = <<>>
        ELSE /\ call.callbackCalls = 0
             /\ call.logged = <<"DisabledFeatureError">>
             /\ call.async => call.returned = "Promise<SafeString>"
             /\ ~call.async => call.returned = "SafeString"

C4_Witness ==
    /\ call.name = "enabledHelper"
    /\ call.async
    /\ call.callbackCalls = 0
    /\ call.returned = "Promise<SafeString>"

\* C5: every request calls next exactly once, without argument when the
\* flag is set at the time of the request and with a NotFoundError when it
\* is not: the flag is evaluated again by each request.
C5_MiddlewarePerRequest ==
    [][call'.name = "request" =>
          middleware'.nextCalls =
              IF IsSetNow(middleware.flag)
              THEN <<"next()">>
              ELSE <<"next(NotFoundError)">>]_vars

\* The last request was refused and the settings have changed since, so
\* that the flag is now set: the next request has the other outcome.
C5_Witness ==
    /\ middleware.nextCalls = <<"next(NotFoundError)">>
    /\ call.name = "none"
    /\ IsSetNow(middleware.flag)

IsPrefix(s, t) == Len(s) <= Len(t) /\ s = SubSeq(t, 1, Len(s))

Contains(s, x) == \E i \in 1..Len(s) : s[i] = x

IndexOf(s, x) == CHOOSE i \in 1..Len(s) : s[i] = x

\* C7: a failing exposeFixtures is logged and exits the process with code 1;
\* any earlier failing step rejects startGhost with nothing run after it
\* (exposeFixtures in particular) and nothing run twice.
C7_ErrorHandling ==
    callInfo.kind = "startGhost" /\ callInfo.failedStep # "" =>
        IF callInfo.failedStep = "exposeFixtures"
        THEN /\ callInfo.outcome = "exit(1)"
             /\ callInfo.consoleErrors = 1
             /\ pc = "exited"
        ELSE /\ callInfo.outcome = "rejected"
             /\ pc = "idle"
             /\ todo = <<>>
             /\ done[Len(done)] = callInfo.failedStep
             /\ IsPrefix(done, callInfo.plan)
             /\ ~Contains(done, "exposeFixtures")

C7_Witness ==
    /\ callInfo.kind = "startGhost"
    /\ callInfo.failedStep = "boot"
    /\ callInfo.outcome = "rejected"

\* The restart path, step by step, for either value of frontend.
RestartSequence(frontend) ==
    IF frontend
    THEN <<"prepareContentFolder",
           "dbUtils.teardown", "knexMigrator.init({only: 2})", "settingsService.init",
           "routeSettingsService.init", "themeService.init",
           "urlServiceUtils.reset", "urlServiceUtils.init({urlCache: false})",
           "urlServiceUtils.isFinished",
           "customRedirectsService.init", "limits.init", "exposeFixtures">>
    ELSE <<"prepareContentFolder",
           "dbUtils.teardown", "knexMigrator.init({only: 2})", "settingsService.init",
           "urlServiceUtils.reset", "urlServiceUtils.init({urlCache: true})",
           "customRedirectsService.init", "limits.init", "exposeFixtures">>

\* C8: the restart path runs its steps one after the other in the listed
\* order, never boots or stops the server, and startGhost returns the handle
\* that was running before the call.
C8_RestartSequence ==
    callInfo.kind = "startGhost" /\ callInfo.paths = <<"restartModeGhostStart">> =>
        /\ IsPrefix(done, RestartSequence(callInfo.frontend))
        /\ ~Contains(done, "boot")
        /\ ~Contains(done, "ghostServer.stop")
        /\ ghostServer = callInfo.handleBefore
        /\ httpServer = callInfo.liveBefore
        /\ callInfo.outcome = "returned" =>
               /\ done = RestartSequence(callInfo.frontend)
               /\ callInfo.returned = callInfo.handleBefore

C8_Witness ==
    /\ callInfo.kind = "startGhost"
    /\ callInfo.paths = <<"restartModeGhostStart">>
    /\ callInfo.frontend
    /\ callInfo.outcome = "returned"

\* C9: at most one server runs: boot happens on the fresh path only and with
\* no server running; a forced start of a running server resets the
\* database, then stops the server, then initialises database and settings,
\* then boots; stopGhost without a running server does nothing.
C9_AtMostOneServer ==
    /\ Cardinality(httpServer) <= 1
    /\ pc = "running" /\ todo # <<>> /\ Head(todo) = "boot" =>
           /\ httpServer = {}
           /\ callInfo.paths = <<"freshModeGhostStart">>
    /\ Contains(done, "boot") =>
           /\ callInfo.paths = <<"freshModeGhostStart">>
           /\ IndexOf(done, "knexMigrator.reset({force: true})")
                  < IndexOf(done, "knexMigrator.init")
           /\ IndexOf(done, "knexMigrator.init") < IndexOf(done, "settingsService.init")
           /\ IndexOf(done, "settingsService.init") < IndexOf(done, "boot")
           /\ callInfo.handleBefore \in callInfo.liveBefore =>
                  /\ Contains(done, "ghostServer.stop")
                  /\ IndexOf(done, "knexMigrator.reset({force: true})")
                         < IndexOf(done, "ghostServer.stop")
                  /\ IndexOf(done, "ghostServer.stop") < IndexOf(done, "knexMigrator.init")
    /\ callInfo.kind = "stopGhost" /\ callInfo.handleBefore \notin callInfo.liveBefore =>
           /\ done = <<>>
           /\ todo = <<>>
           /\ ghostServer = callInfo.handleBefore
           /\ httpServer = callInfo.liveBefore

C9_Witness ==
    /\ callInfo.kind = "startGhost"
    /\ callInfo.forceStart
    /\ callInfo.handleBefore \in callInfo.liveBefore
    /\ Contains(done, "boot")
    /\ callInfo.outcome = "returned"

\* C10: getAll().members is true exactly when members_signup_access is not
\* 'none', whatever 'members' is stored as; a getAll leaves the cached
\* 'labs' setting as it was, and a second getAll returns what the first did.
C10_MembersDerived ==
    /\ [](call.name = "getAll" =>
            (call.result["members"] = "true" <=> membersSignupAccess # "none")
            /\ call.result["members"] \in {"true", "false"})
    /\ [][call'.name = "getAll" =>
            /\ labsSetting' = labsSetting
            /\ call.name = "getAll" => call'.result = call.result]_vars

C10_Witness ==
    /\ call.name = "getAll"
    /\ StoredValue("members") = "true"
    /\ membersSignupAccess = "none"
    /\ call.result["members"] = "false"

====
